---------------------------- MODULE Spec2Model ----------------------------
(***************************************************************************)
(* Word-level PDF comparison: compare.py, 2pdf_comparison.py and           *)
(* 3pdf_compare.py.  Each variant extracts the words of a page, normalizes *)
(* their text, aligns the reference page against the candidate page with   *)
(* difflib.SequenceMatcher and highlights candidate words that lie in a    *)
(* non-equal opcode; a merge step lays the pages out side by side.         *)
(*                                                                         *)
(* A text is a sequence of one-character strings, a word (token) a record  *)
(* of its text and its rectangle, a page a record of its words and of the  *)
(* failure its reading raises (if any), a document a sequence of pages.    *)
(* Indices into word lists, opcodes and page numbers are 0-based, as in    *)
(* the Python source.                                                      *)
(***************************************************************************)
EXTENDS Integers, Sequences, FiniteSets, TLC

VARIABLES
  variant,      \* which script runs: "compare", "2pdf" or "3pdf"
  base,         \* the reference document
  cands,        \* the candidate documents, in the order they are compared
  ci,           \* 1-based index of the candidate being highlighted
  pc,           \* position of the run
  total_pages,  \* bound of the page loop of the current highlight call
  page_num,     \* next page index of the page loop / merge loop
  processed,    \* page indices whose loop body was entered (current call)
  annots,       \* annots[c][p+1]: rectangles annotated on page p of candidate c
  saved,        \* saved[c]: the highlighted file of candidate c was written
  merged,       \* pages of the merged output, each the page index it shows
  log,          \* log records of the run
  last,         \* what the last executed page body computed
  nin,          \* normalization: the input text
  nhist         \* normalization: the input and its successive normal forms

runVars == <<variant, base, cands, ci, pc, total_pages, page_num, processed,
             annots, saved, merged, log, last>>
normVars == <<nin, nhist>>
vars == <<runVars, normVars>>

-----------------------------------------------------------------------------
(* Bounds of the model *)

MaxBaseWords == 3
MaxWords == 4
MaxPages == 2
MaxLen == 3
LongSlack == 1

-----------------------------------------------------------------------------
(* Helpers: 0-based access to sequences, as the Python code indexes them *)

Range(s) == {s[k] : k \in 1..Len(s)}
At(s, i) == s[i + 1]
Min2(x, y) == IF x <= y THEN x ELSE y
Max2(x, y) == IF x >= y THEN x ELSE y
SeqsUpTo(S, n) == UNION {[1..k -> S] : k \in 0..n}

-----------------------------------------------------------------------------
(* Characters and text normalization *)

Chars == {"a", "b", "A", "-", " ", "\t"}
IsSpace(c) == c \in {" ", "\t"}                 \* regex \s
IsWordChar(c) == c \in {"a", "b", "A"}          \* regex \w
Lower(c) == IF c = "A" THEN "a" ELSE c          \* str.lower, per character

RECURSIVE lstrip(_)
lstrip(t) == IF t # <<>> /\ IsSpace(Head(t)) THEN lstrip(Tail(t)) ELSE t

RECURSIVE rstrip(_)
rstrip(t) ==
  IF t # <<>> /\ IsSpace(t[Len(t)]) THEN rstrip(SubSeq(t, 1, Len(t) - 1)) ELSE t

\* str.strip(): leading and trailing whitespace removed
strip(t) == rstrip(lstrip(t))

\* str.lower()
lower(t) == [k \in 1..Len(t) |-> Lower(t[k])]

RECURSIVE collapse_ws(_)
\* re.sub(r'\s+', ' ', t): every maximal run of whitespace becomes one space
collapse_ws(t) ==
  IF t = <<>> THEN <<>>
  ELSE IF IsSpace(Head(t))
       THEN <<" ">> \o collapse_ws(lstrip(t))
       ELSE <<Head(t)>> \o collapse_ws(Tail(t))

\* re.sub(r'[^\w\s]', '', t): characters that are neither word nor space go
drop_punct(t) == SelectSeq(t, LAMBDA c : IsWordChar(c) \/ IsSpace(c))

\* re.sub(r'\s+', '', t): all whitespace goes
remove_ws(t) == SelectSeq(t, LAMBDA c : ~IsSpace(c))

\* normalize_text of 3pdf_compare.py
normalize_text(t) == drop_punct(collapse_ws(lower(strip(t))))

Variants == {"compare", "2pdf", "3pdf"}

\* the normalization each variant applies to a word's text
Normalize(v, t) == IF v = "3pdf" THEN normalize_text(t) ELSE remove_ws(t)

-----------------------------------------------------------------------------
(* difflib.SequenceMatcher(None, a, b, autojunk), isjunk = None *)

AutojunkMinLen == 200

\* the autojunk argument each variant passes (the default is True)
Autojunk(v) == v # "3pdf"

\* bpopular of __chain_b: elements of b the autojunk heuristic drops from b2j
bpopular(b, autojunk) ==
  IF autojunk /\ Len(b) >= AutojunkMinLen
  THEN LET ntest == (Len(b) \div 100) + 1
       IN  {elt \in Range(b) :
              Cardinality({j \in 1..Len(b) : b[j] = elt}) > ntest}
  ELSE {}

\* a b2j that lists every position of b for every element
InB2J_any(a, b, pop, i, j) == At(b, j) \notin pop

\* Whether j is among b2j.get(a[i]): b[j] is a[i] and was not dropped as popular
InB2J(a, b, pop, i, j) == At(b, j) = At(a, i) /\ At(b, j) \notin pop

RECURSIVE newj2len(_, _, _, _, _, _, _, _)
\* newj2len after the inner loop of row i, for the columns lo..hi of the window
\* blo..bhi-1, as the sequence of newj2len.get(j, 0) (a stored k is >= 1);
\* j2len is the same sequence of the previous row, and j2len.get(blo-1, 0) = 0.
\* The columns are halved so that the evaluation stays shallow.
newj2len(a, b, pop, i, blo, lo, hi, j2len) ==
  IF lo > hi THEN <<>>
  ELSE IF lo = hi
       THEN IF InB2J(a, b, pop, i, lo)
            THEN <<(IF lo > blo /\ j2len # <<>> THEN j2len[lo - blo] ELSE 0) + 1>>
            ELSE <<0>>
       ELSE LET mid == (lo + hi) \div 2
            IN  newj2len(a, b, pop, i, blo, lo, mid, j2len)
                \o newj2len(a, b, pop, i, blo, mid + 1, hi, j2len)

\* The updates "if k > bestsize: besti, bestj, bestsize = i-k+1, j-k+1, k" of
\* row i, for j ascending: bestsize only grows, so the last update is at the
\* first j whose k is the largest of the row, if that exceeds bestsize.
update_best(row, i, blo, best) ==
  LET K == {row[k] : k \in 1..Len(row)}
      m == CHOOSE k \in K : \A l \in K : l <= k
  IN  IF row = <<>> \/ m <= best.size THEN best
      ELSE LET c == CHOOSE k \in 1..Len(row) :
                      row[k] = m /\ \A l \in 1..(k - 1) : row[l] # m
               j == blo + c - 1
           IN  [i |-> i - m + 1, j |-> j - m + 1, size |-> m]

\* one row of the outer loop: the new j2len and the best match so far
row_step(row, i, blo, best) ==
  [j2len |-> row, best |-> update_best(row, i, blo, best)]

RECURSIVE longest_loop(_, _, _, _, _, _, _, _)

\* the rows mid..hi-1 once the state st after the rows before them is known
longest_rest(a, b, pop, mid, hi, blo, bhi, st) ==
  IF st.best.size >= 0 THEN longest_loop(a, b, pop, mid, hi, blo, bhi, st)
  ELSE st

\* the outer loop "for i in range(lo, hi)" from the state st = [j2len, best];
\* the rows are halved so that the evaluation stays shallow
longest_loop(a, b, pop, lo, hi, blo, bhi, st) ==
  IF lo >= hi THEN st
  ELSE IF hi = lo + 1
       THEN row_step(newj2len(a, b, pop, lo, blo, blo, bhi - 1, st.j2len),
                     lo, blo, st.best)
       ELSE longest_rest(a, b, pop, (lo + hi) \div 2, hi, blo, bhi,
              longest_loop(a, b, pop, lo, (lo + hi) \div 2, blo, bhi, st))

\* "while besti > alo and bestj > blo and a[besti-1] == b[bestj-1]"
\* (no element is junk: isjunk is None, so bjunk is empty): the loop runs d
\* times, d the length of the run of equal pairs before the match
extend_back(a, b, alo, blo, m) ==
  LET lim == Min2(m.i - alo, m.j - blo)
      d == CHOOSE d \in 0..lim :
             /\ \A t \in 1..d : At(a, m.i - t) = At(b, m.j - t)
             /\ d = lim \/ At(a, m.i - d - 1) # At(b, m.j - d - 1)
  IN  [i |-> m.i - d, j |-> m.j - d, size |-> m.size + d]

\* "while besti+bestsize < ahi and bestj+bestsize < bhi and a[..] == b[..]":
\* the loop runs d times, d the length of the run of equal pairs after the match
extend_fwd(a, b, ahi, bhi, m) ==
  LET lim == Min2(ahi - m.i - m.size, bhi - m.j - m.size)
      d == CHOOSE d \in 0..lim :
             /\ \A t \in 0..(d - 1) : At(a, m.i + m.size + t) = At(b, m.j + m.size + t)
             /\ d = lim \/ At(a, m.i + m.size + d) # At(b, m.j + m.size + d)
  IN  [m EXCEPT !.size = m.size + d]

find_longest_match(a, b, pop, alo, ahi, blo, bhi) ==
  LET best0 == [i |-> alo, j |-> blo, size |-> 0]
      best == longest_loop(a, b, pop, alo, ahi, blo, bhi,
                           [j2len |-> <<>>, best |-> best0]).best
  IN  extend_fwd(a, b, ahi, bhi, extend_back(a, b, alo, blo, best))

\* the ranges left of and right of the match x of the range q that are pushed:
\* "if alo < i and blo < j" and "if i+k < ahi and j+k < bhi"
pushed(q, x) ==
  (IF q.alo < x.i /\ q.blo < x.j
   THEN <<[alo |-> q.alo, ahi |-> x.i, blo |-> q.blo, bhi |-> x.j]>>
   ELSE <<>>)
  \o (IF x.i + x.size < q.ahi /\ x.j + x.size < q.bhi
      THEN <<[alo |-> x.i + x.size, ahi |-> q.ahi,
              blo |-> x.j + x.size, bhi |-> q.bhi]>>
      ELSE <<>>)

\* one turn of "while queue" once the longest match x of the popped range q is
\* known: "if k:" append it and push what is left on both sides of it
queue_step(rest, q, x, matching_blocks) ==
  IF x.size = 0
  THEN [queue |-> rest, matching_blocks |-> matching_blocks]
  ELSE [queue |-> rest \o pushed(q, x),
        matching_blocks |-> Append(matching_blocks, x)]

RECURSIVE blocks_loop(_, _, _, _)
\* "while queue": pop a range, find its longest match
blocks_loop(a, b, pop, st) ==
  IF st.queue = <<>> THEN st.matching_blocks
  ELSE blocks_loop(a, b, pop,
         queue_step(SubSeq(st.queue, 1, Len(st.queue) - 1),
                    st.queue[Len(st.queue)],
                    find_longest_match(a, b, pop,
                                       st.queue[Len(st.queue)].alo,
                                       st.queue[Len(st.queue)].ahi,
                                       st.queue[Len(st.queue)].blo,
                                       st.queue[Len(st.queue)].bhi),
                    st.matching_blocks))

\* tuple order of Match(a, b, size)
MatchLess(x, y) ==
  \/ x.i < y.i
  \/ x.i = y.i /\ x.j < y.j
  \/ x.i = y.i /\ x.j = y.j /\ x.size < y.size

RECURSIVE sort_blocks(_)
\* matching_blocks.sort()
sort_blocks(s) ==
  IF s = <<>> THEN <<>>
  ELSE LET m == CHOOSE k \in 1..Len(s) :
                  \A l \in 1..Len(s) : l = k \/ ~MatchLess(s[l], s[k])
       IN  <<s[m]>> \o sort_blocks(SubSeq(s, 1, m - 1) \o SubSeq(s, m + 1, Len(s)))

RECURSIVE collapse_adjacent(_, _, _)
\* the loop that merges adjacent equal blocks; cur is (i1, j1, k1)
collapse_adjacent(s, cur, non_adjacent) ==
  IF s = <<>>
  THEN IF cur.size # 0 THEN Append(non_adjacent, cur) ELSE non_adjacent
  ELSE LET nx == Head(s)
       IN  IF cur.i + cur.size = nx.i /\ cur.j + cur.size = nx.j
           THEN collapse_adjacent(Tail(s),
                                  [cur EXCEPT !.size = cur.size + nx.size],
                                  non_adjacent)
           ELSE collapse_adjacent(Tail(s), nx,
                  IF cur.size # 0 THEN Append(non_adjacent, cur)
                  ELSE non_adjacent)

\* the blocks without the closing (la, lb, 0)
get_matching_blocks_no_sentinel(a, b, autojunk) ==
  collapse_adjacent(
    sort_blocks(blocks_loop(a, b, bpopular(b, autojunk),
                  [queue |-> <<[alo |-> 0, ahi |-> Len(a),
                                blo |-> 0, bhi |-> Len(b)]>>,
                   matching_blocks |-> <<>>])),
    [i |-> 0, j |-> 0, size |-> 0], <<>>)

get_matching_blocks(a, b, autojunk) ==
  LET la == Len(a)
      lb == Len(b)
      found == blocks_loop(a, b, bpopular(b, autojunk),
                 [queue |-> <<[alo |-> 0, ahi |-> la, blo |-> 0, bhi |-> lb]>>,
                  matching_blocks |-> <<>>])
  IN  Append(collapse_adjacent(sort_blocks(found),
                               [i |-> 0, j |-> 0, size |-> 0], <<>>),
             [i |-> la, j |-> lb, size |-> 0])

Op(tag, i1, i2, j1, j2) ==
  [tag |-> tag, i1 |-> i1, i2 |-> i2, j1 |-> j1, j2 |-> j2]

RECURSIVE opcodes_loop(_, _, _, _)
\* "for ai, bj, size in self.get_matching_blocks()"
opcodes_loop(blocks, i, j, answer) ==
  IF blocks = <<>> THEN answer
  ELSE LET m == Head(blocks)
           tag == IF i < m.i /\ j < m.j THEN "replace"
                  ELSE IF i < m.i THEN "delete"
                  ELSE IF j < m.j THEN "insert"
                  ELSE ""
           a1 == IF tag # "" THEN Append(answer, Op(tag, i, m.i, j, m.j))
                 ELSE answer
           a2 == IF m.size # 0
                 THEN Append(a1, Op("equal", m.i, m.i + m.size,
                                    m.j, m.j + m.size))
                 ELSE a1
       IN  opcodes_loop(Tail(blocks), m.i + m.size, m.j + m.size, a2)

get_opcodes(a, b, autojunk) ==
  opcodes_loop(get_matching_blocks(a, b, autojunk), 0, 0, <<>>)

-----------------------------------------------------------------------------
(* Words, pages and documents *)

None == "None"

\* a word as page.get_text("words") yields it: its text (word[4]) and its
\* rectangle (word[:4]); pos tells the rectangles of one page apart, valid is
\* whether add_highlight_annot accepts the rectangle
Word(t, pos, valid) == [text |-> t, rect |-> [pos |-> pos, valid |-> valid]]

\* a page whose words have the given texts and valid rectangles
PageOf(texts) ==
  [words |-> [k \in 1..Len(texts) |-> Word(texts[k], k - 1, TRUE)],
   fault |-> "none"]

\* doc.load_page(n) / doc[n]: a page index outside the document raises, like a
\* page that cannot be loaded
load_page(doc, n) ==
  IF n < Len(doc) THEN doc[n + 1] ELSE [words |-> <<>>, fault |-> "load"]

\* word[4].strip() is non-empty
non_blank(w) == strip(w.text) # <<>>

\* extract_words: every variant reads page.get_text("words"); 3pdf_compare.py
\* keeps only the words whose stripped text is non-empty
extract_words(v, page) ==
  IF v = "3pdf" THEN SelectSeq(page.words, non_blank) ELSE page.words

\* [normalize(word["text"]) for word in words]
norm_texts(v, words) == [k \in 1..Len(words) |-> Normalize(v, words[k].text)]

-----------------------------------------------------------------------------
(* The highlight policy of one page *)

\* a highlight policy without the suppression test
suppressed_never(v, base_text, test_word) == FALSE

\* "if test_word in base_text: continue" of 3pdf_compare.py; the other variants
\* have no such test
suppressed(v, base_text, test_word) ==
  v = "3pdf" /\ test_word \in Range(base_text)

\* highlight policies that take other tags for differences
diff_tag_replace_only(v, tag) == tag = "replace"

diff_tag_any(v, tag) == TRUE

\* the opcode tags whose candidate range is highlighted: tag != "equal" in
\* 3pdf_compare.py, tag in ("insert", "replace", "delete") in the others
diff_tag(v, tag) ==
  IF v = "3pdf" THEN tag # "equal" ELSE tag \in {"insert", "replace", "delete"}

\* the candidate indices of one opcode that reach add_highlight_annot, ascending:
\* range(j1, min(j2, len(test_words))), resp. range(j1, j2) with idx < len
op_indices(v, op, base_text, test_words) ==
  LET hi == Min2(op.j2, Len(test_words))
      idxs == [k \in 1..Max2(hi - op.j1, 0) |-> op.j1 + k - 1]
  IN  SelectSeq(idxs,
        LAMBDA idx : ~suppressed(v, base_text,
                                 Normalize(v, At(test_words, idx).text)))

RECURSIVE highlight_indices(_, _, _, _)
\* "for tag, i1, i2, j1, j2 in matcher.get_opcodes()": the candidate indices
\* that reach add_highlight_annot, in the order the loops visit them
highlight_indices(v, ops, base_text, test_words) ==
  IF ops = <<>> THEN <<>>
  ELSE (IF diff_tag(v, Head(ops).tag)
        THEN op_indices(v, Head(ops), base_text, test_words)
        ELSE <<>>)
       \o highlight_indices(v, Tail(ops), base_text, test_words)

\* the indices of span before the first word whose rectangle is refused (all of
\* span when none is)
UntilInvalid(span, test_words) ==
  LET bad == {k \in 1..Len(span) : ~At(test_words, span[k]).rect.valid}
  IN  IF bad = {} THEN span
      ELSE SubSeq(span, 1, (CHOOSE k \in bad : \A l \in bad : k <= l) - 1)

LogRec(level, where, page) == [level |-> level, where |-> where, page |-> page]

NoLast ==
  [cand |-> 0, page |-> 0, status |-> "none", failed |-> FALSE,
   base_text |-> <<>>, test_text |-> <<>>, rects |-> <<>>,
   autojunk |-> FALSE, bpopular |-> {}, opcodes |-> <<>>, span |-> <<>>]

\* what a page body that ran to its end, or to the annotation that raised,
\* leaves behind
PageRec(v, c, n, status, failed, base_text, test_text, test_words, ops, span) ==
  [cand |-> c, page |-> n, status |-> status, failed |-> failed,
   base_text |-> base_text, test_text |-> test_text,
   rects |-> [k \in 1..Len(test_words) |-> test_words[k].rect.pos],
   autojunk |-> Autojunk(v), bpopular |-> bpopular(test_text, Autojunk(v)),
   opcodes |-> ops, span |-> span]

RectsOf(test_words, idxs) ==
  {At(test_words, idxs[k]).rect.pos : k \in 1..Len(idxs)}

\* 3pdf_compare.py, the annotation loop: an add_highlight_annot that raises is
\* caught per word (logged, next word)
annotate_3pdf(c, n, faults, base_text, test_text, test_words, ops, span) ==
  [status |-> "ok",
   annot |-> RectsOf(test_words,
               SelectSeq(span, LAMBDA idx : At(test_words, idx).rect.valid)),
   logs |-> [k \in 1..faults |-> LogRec("warning", "extract", n)]
            \o [k \in 1..Len(SelectSeq(span,
                       LAMBDA idx : ~At(test_words, idx).rect.valid))
                  |-> LogRec("warning", "highlight", n)],
   rec |-> PageRec("3pdf", c, n, "ok",
                   faults > 0
                   \/ \E k \in 1..Len(span) : ~At(test_words, span[k]).rect.valid,
                   base_text, test_text, test_words, ops, span)]

align_3pdf(c, n, faults, base_text, test_text, test_words, ops) ==
  annotate_3pdf(c, n, faults, base_text, test_text, test_words, ops,
                highlight_indices("3pdf", ops, base_text, test_words))

texts_3pdf(c, n, faults, base_text, test_text, test_words) ==
  align_3pdf(c, n, faults, base_text, test_text, test_words,
             get_opcodes(base_text, test_text, Autojunk("3pdf")))

words_3pdf(c, n, faults, base_words, test_words) ==
  texts_3pdf(c, n, faults, norm_texts("3pdf", base_words),
             norm_texts("3pdf", test_words), test_words)

\* The body of the page loop of 3pdf_compare.py for page n: what it annotates,
\* what it logs and what it computed.  A page that does not load raises into the
\* page's "except" (logged, next page); a get_text that raises is caught inside
\* extract_words (logged, no words).
page_body_3pdf(c, n, bpage, tpage) ==
  IF bpage.fault = "load" \/ tpage.fault = "load"
  THEN [status |-> "skipped", annot |-> {},
        logs |-> <<LogRec("error", "page", n)>>,
        rec |-> [NoLast EXCEPT !.cand = c, !.page = n, !.status = "skipped",
                               !.failed = TRUE]]
  ELSE words_3pdf(c, n,
         (IF bpage.fault = "text" THEN 1 ELSE 0)
         + (IF tpage.fault = "text" THEN 1 ELSE 0),
         IF bpage.fault = "text" THEN <<>> ELSE extract_words("3pdf", bpage),
         IF tpage.fault = "text" THEN <<>> ELSE extract_words("3pdf", tpage))

\* compare.py and 2pdf_comparison.py, the annotation loop: the first
\* add_highlight_annot that raises ends the run
annotate_strict(v, c, n, base_text, test_text, test_words, ops, span, good) ==
  [status |-> IF good = span THEN "ok" ELSE "raised",
   annot |-> RectsOf(test_words, good),
   logs |-> <<>>,
   rec |-> PageRec(v, c, n, IF good = span THEN "ok" ELSE "raised",
                   good # span, base_text, test_text, test_words, ops, span)]

mark_strict(v, c, n, base_text, test_text, test_words, ops, span) ==
  annotate_strict(v, c, n, base_text, test_text, test_words, ops, span,
                  UntilInvalid(span, test_words))

align_strict(v, c, n, base_text, test_text, test_words, ops) ==
  mark_strict(v, c, n, base_text, test_text, test_words, ops,
              highlight_indices(v, ops, base_text, test_words))

texts_strict(v, c, n, base_text, test_text, test_words) ==
  align_strict(v, c, n, base_text, test_text, test_words,
               get_opcodes(base_text, test_text, Autojunk(v)))

\* The body of the page loop of compare.py and 2pdf_comparison.py for page n.
\* Nothing is caught and nothing is logged: whatever raises ends the run.
page_body_strict(v, c, n, bpage, tpage) ==
  IF bpage.fault # "none" \/ tpage.fault # "none"
  THEN [status |-> "raised", annot |-> {}, logs |-> <<>>,
        rec |-> [NoLast EXCEPT !.cand = c, !.page = n, !.status = "raised",
                               !.failed = TRUE]]
  ELSE texts_strict(v, c, n, norm_texts(v, extract_words(v, bpage)),
                    norm_texts(v, extract_words(v, tpage)),
                    extract_words(v, tpage))

page_body(v, c, n, bpage, tpage) ==
  IF v = "3pdf" THEN page_body_3pdf(c, n, bpage, tpage)
  ELSE page_body_strict(v, c, n, bpage, tpage)

-----------------------------------------------------------------------------
(* The run: highlight every candidate against the reference, then merge *)

chunk_size == 10

\* max_pages of highlight_differences: compare_three_pdfs does not pass it
max_pages == None

MinLen(docs) == CHOOSE n \in {Len(docs[k]) : k \in 1..Len(docs)} :
                  \A k \in 1..Len(docs) : n <= Len(docs[k])

\* a page bound taken from the reference alone
TotalPages_base_only(base_doc, test_doc, mp) ==
  IF mp # None THEN Min2(Len(base_doc), mp) ELSE Len(base_doc)

\* total_pages = min(len(base_doc), len(test_doc)), cut to max_pages if given
TotalPages(base_doc, test_doc, mp) ==
  LET n == Min2(Len(base_doc), Len(test_doc))
  IN  IF mp # None THEN Min2(n, mp) ELSE n

\* the documents the merge step opens: the reference and every highlighted file
\* (a highlighted file has the pages of its candidate)
MergeDocs == <<base>> \o cands

\* num_pages = min(len(doc) for doc in docs)
MergePages(docs) == MinLen(docs)

\* fitz.open of the two documents, and the bound of the page loop
Open ==
  /\ pc = "start"
  /\ total_pages' = TotalPages(base, cands[ci], max_pages)
  /\ page_num' = 0
  /\ pc' = "pages"
  /\ UNCHANGED <<variant, base, cands, ci, processed, annots, saved, merged,
                 log, last, normVars>>

\* the effect of a page body r on the run
ApplyPage(r) ==
  /\ processed' = [processed EXCEPT ![ci] = Append(@, page_num)]
  /\ annots' = [annots EXCEPT ![ci] =
                  [q \in DOMAIN @ \cup {page_num + 1} |->
                     IF q = page_num + 1
                     THEN (IF q \in DOMAIN @ THEN @[q] ELSE {}) \cup r.annot
                     ELSE @[q]]]
  /\ log' = log \o r.logs
  /\ last' = r.rec
  /\ pc' = IF r.status = "raised" THEN "aborted" ELSE "pages"
  /\ page_num' = IF r.status = "raised" THEN page_num ELSE page_num + 1

\* one execution of the page loop's body
ProcessPage ==
  /\ pc = "pages"
  /\ page_num < total_pages
  /\ page_num < Min2(((page_num \div chunk_size) * chunk_size) + chunk_size,
                     total_pages)
  /\ ApplyPage(page_body(variant, ci, page_num, load_page(base, page_num),
                         load_page(cands[ci], page_num)))
  /\ UNCHANGED <<variant, base, cands, ci, total_pages, saved, merged, normVars>>

\* test_doc.save(output_path) after the page loop; the caller then highlights
\* the next candidate or merges
Save ==
  /\ pc = "pages"
  /\ page_num >= total_pages
  /\ saved' = [saved EXCEPT ![ci] = TRUE]
  /\ log' = IF variant = "3pdf"
            THEN Append(log, LogRec("info", "completed", total_pages)) ELSE log
  /\ IF ci < Len(cands)
     THEN /\ ci' = ci + 1
          /\ pc' = "start"
          /\ UNCHANGED page_num
     ELSE /\ pc' = "merge"
          /\ page_num' = 0
          /\ UNCHANGED ci
  /\ UNCHANGED <<variant, base, cands, total_pages, processed, annots, merged,
                 last, normVars>>

\* one execution of the merge loop's body: load page i of every document and
\* lay the pages out on a new output page
MergePage ==
  /\ pc = "merge"
  /\ page_num < MergePages(MergeDocs)
  /\ IF \E k \in 1..Len(MergeDocs) : load_page(MergeDocs[k], page_num).fault = "load"
     THEN /\ pc' = "merge_failed"
          /\ UNCHANGED <<merged, page_num>>
     ELSE /\ merged' = Append(merged, page_num)
          /\ page_num' = page_num + 1
          /\ UNCHANGED pc
  /\ UNCHANGED <<variant, base, cands, ci, total_pages, processed, annots, saved,
                 log, last, normVars>>

\* output.save(output_path) of the merge step
MergeSave ==
  /\ pc = "merge"
  /\ page_num >= MergePages(MergeDocs)
  /\ pc' = "done"
  /\ UNCHANGED <<variant, base, cands, ci, total_pages, page_num, processed,
                 annots, saved, merged, log, last, normVars>>

Next == Open \/ ProcessPage \/ Save \/ MergePage \/ MergeSave

-----------------------------------------------------------------------------
(* Specifications *)

Rep(x, n) == [k \in 1..n |-> x]

TA == <<"a">>
TB == <<"b">>
TAB == <<"a", "b">>
TBA == <<"b", "a">>
TWS == <<" ">>
TCapA == <<"A">>
TADash == <<"a", "-">>

\* the state after the documents were chosen, before the first highlight call:
\* 2pdf_comparison.py compares one candidate, the other two variants two
InitRun(BaseDocs, FirstDocs, SecondDocs) ==
  /\ variant \in Variants
  /\ base \in BaseDocs
  /\ cands \in (IF variant = "2pdf" THEN {<<c>> : c \in FirstDocs}
                ELSE {<<c, d>> : c \in FirstDocs, d \in SecondDocs})
  /\ ci = 1
  /\ pc = "start"
  /\ total_pages = 0
  /\ page_num = 0
  /\ processed = [k \in 1..Len(cands) |-> <<>>]
  /\ annots = [k \in 1..Len(cands) |-> [q \in 1..Len(cands[k]) |-> {}]]
  /\ saved = [k \in 1..Len(cands) |-> FALSE]
  /\ merged = <<>>
  /\ log = <<>>
  /\ last = NoLast
  /\ nin = <<>>
  /\ nhist = <<>>

\* Pages of the multi-page runs: base pages that read well, do not load, or
\* whose text extraction raises; candidate pages with a changed word, with a
\* changed word whose rectangle the annotation refuses, and the two failures
BasePagePool ==
  {PageOf(<<TA, TB>>),
   [PageOf(<<TA, TB>>) EXCEPT !.fault = "load"],
   [PageOf(<<TA, TB>>) EXCEPT !.fault = "text"]}

CandPagePool ==
  {PageOf(<<TA, TAB>>),
   [words |-> <<Word(TAB, 0, FALSE), Word(TA, 1, TRUE), Word(TBA, 2, TRUE)>>,
    fault |-> "none"],
   [PageOf(<<TB, TB>>) EXCEPT !.fault = "load"],
   [PageOf(<<TB, TB>>) EXCEPT !.fault = "text"]}

SecondDocs == {Rep(PageOf(<<TA, TB>>), n) : n \in 0..MaxPages}

Init == InitRun(SeqsUpTo(BasePagePool, MaxPages),
                SeqsUpTo(CandPagePool, MaxPages), SecondDocs)

Spec == Init /\ [][Next]_vars

\* One-page documents with every word sequence up to the bounds, and candidate
\* pages whose words differ from the reference's in case and punctuation only:
\* the inputs of the alignment and of the highlight policy
PageInit ==
  InitRun({<<PageOf(t)>> : t \in SeqsUpTo({TA, TB}, MaxBaseWords)},
          {<<PageOf(t)>> : t \in SeqsUpTo({TA, TB, TWS}, MaxWords)
                               \cup SeqsUpTo({TCapA, TADash, TB}, 2)},
          {<<PageOf(<<TA, TB>>)>>})

PageSpec == PageInit /\ [][Next]_vars

\* One-page documents around the length at which autojunk starts to act
LongLens == (AutojunkMinLen - LongSlack)..(AutojunkMinLen + LongSlack)

LongInit ==
  InitRun({<<PageOf(<<TB>> \o Rep(TA, n - 1))>> : n \in LongLens},
          {<<PageOf(Rep(TA, n - 1) \o <<TB>>)>> : n \in LongLens},
          {<<PageOf(<<TA, TB>>)>>})

LongSpec == LongInit /\ [][Next]_vars

\* Normalization on its own: a text is normalized, and its normal form again
NormInit ==
  /\ variant \in Variants
  /\ nin \in SeqsUpTo(Chars, MaxLen)
  /\ nhist = <<nin>>
  /\ base = <<>>
  /\ cands = <<>>
  /\ ci = 0
  /\ pc = "normalize"
  /\ total_pages = 0
  /\ page_num = 0
  /\ processed = <<>>
  /\ annots = <<>>
  /\ saved = <<>>
  /\ merged = <<>>
  /\ log = <<>>
  /\ last = NoLast

NormalizeStep ==
  /\ pc = "normalize"
  /\ Len(nhist) < 3
  /\ nhist' = Append(nhist, Normalize(variant, nhist[Len(nhist)]))
  /\ UNCHANGED <<runVars, nin>>

NormNext == NormalizeStep

NormSpec == NormInit /\ [][NormNext]_vars

-----------------------------------------------------------------------------
(* What the last page body left behind *)

\* a page body ran to its end
LastOk == last.status = "ok"

\* the annotations on the candidate page the last page body worked on
PageAnnots == annots[last.cand][last.page + 1]

\* the words of that candidate page as the document holds them
PageWords == cands[last.cand][last.page + 1].words

\* the indices of the candidate symbol sequence (0-based)
CandIdx == 0..(Len(last.test_text) - 1)

\* the candidate indices whose word carries a highlight annotation
HighlightedIdx == {j \in CandIdx : last.rects[j + 1] \in PageAnnots}

\* j lies in the candidate range [j1, j2) of an opcode with one of the tags
InOp(tags, j) ==
  \E k \in 1..Len(last.opcodes) :
    /\ last.opcodes[k].tag \in tags
    /\ last.opcodes[k].j1 <= j
    /\ j < last.opcodes[k].j2

InDiffOp(j) == InOp({"insert", "replace", "delete"}, j)
InEqualOp(j) == InOp({"equal"}, j)

Count(s, x) == Cardinality({k \in 1..Len(s) : s[k] = x})

\* s and t have the same multiset of symbols
Perm(s, t) ==
  /\ Len(s) = Len(t)
  /\ \A x \in Range(s) \cup Range(t) : Count(s, x) = Count(t, x)

-----------------------------------------------------------------------------
(* C1 *)

\* C1: in 3pdf_compare.py a candidate index is highlighted if and only if it
\* lies in the candidate range of an opcode whose tag is not 'equal' and its
\* normalized text occurs nowhere in the reference sequence of the page.
C1_GlobalSuppression ==
  (variant = "3pdf" /\ LastOk) =>
    \A j \in CandIdx :
      j \in HighlightedIdx
        <=> (InDiffOp(j) /\ last.test_text[j + 1] \notin Range(last.base_text))

\* a 3pdf page with a highlighted index and with an index of a non-equal opcode
\* that stays unmarked because its text occurs in the reference
C1_Witness ==
  /\ variant = "3pdf"
  /\ LastOk
  /\ HighlightedIdx # {}
  /\ \E j \in CandIdx :
       /\ InDiffOp(j)
       /\ last.test_text[j + 1] \in Range(last.base_text)
       /\ j \notin HighlightedIdx

-----------------------------------------------------------------------------
(* C2 *)

\* C2: when the candidate sequence is a permutation of the reference sequence
\* and differs from it, compare.py and 2pdf_comparison.py highlight exactly the
\* candidate indices outside the 'equal' opcodes, at least one of them, and
\* 3pdf_compare.py highlights none.
C2_OrderSensitivity ==
  (LastOk /\ Perm(last.base_text, last.test_text)
          /\ last.base_text # last.test_text) =>
    IF variant = "3pdf"
    THEN HighlightedIdx = {}
    ELSE /\ HighlightedIdx = {j \in CandIdx : ~InEqualOp(j)}
         /\ HighlightedIdx # {}

\* a strict variant highlighted a moved word of a permuted page
C2_Witness ==
  /\ variant # "3pdf"
  /\ LastOk
  /\ Perm(last.base_text, last.test_text)
  /\ last.base_text # last.test_text
  /\ Len(last.test_text) >= 3
  /\ HighlightedIdx # {}
  /\ HighlightedIdx # CandIdx

-----------------------------------------------------------------------------
(* C3 *)

\* the opcodes, in order, cover 0..la on the reference side and 0..lb on the
\* candidate side without gap or overlap
Partitions(ops, la, lb) ==
  /\ \A k \in 1..Len(ops) : ops[k].i1 <= ops[k].i2 /\ ops[k].j1 <= ops[k].j2
  /\ \A k \in 2..Len(ops) :
       ops[k].i1 = ops[k - 1].i2 /\ ops[k].j1 = ops[k - 1].j2
  /\ IF ops = <<>> THEN la = 0 /\ lb = 0
     ELSE /\ ops[1].i1 = 0 /\ ops[1].j1 = 0
          /\ ops[Len(ops)].i2 = la /\ ops[Len(ops)].j2 = lb

\* C3: the opcodes of every page partition both symbol sequences: the first
\* starts at 0 on both sides, each starts where the previous one ends, the last
\* ends at the lengths of the sequences.
C3_TotalCoverage ==
  LastOk => Partitions(last.opcodes, Len(last.base_text), Len(last.test_text))

\* a page whose alignment has at least three opcodes
C3_Witness ==
  /\ LastOk
  /\ Len(last.opcodes) >= 3
  /\ Len(last.base_text) >= 2
  /\ Len(last.test_text) >= 3

-----------------------------------------------------------------------------
(* C4 *)

\* C4 as stated: a sequence aligned against itself, the empty one included,
\* yields exactly one opcode, 'equal' over the whole sequence, and no highlight.
C4_Original ==
  (LastOk /\ last.base_text = last.test_text) =>
    /\ last.opcodes = <<Op("equal", 0, Len(last.base_text),
                           0, Len(last.test_text))>>
    /\ PageAnnots = {}

\* C4, amended: a non-empty sequence aligned against itself yields exactly one
\* opcode, 'equal' over the whole sequence; the empty sequence yields no opcode
\* at all; in both cases no word of the page is highlighted, in every variant.
C4_Identity ==
  (LastOk /\ last.base_text = last.test_text) =>
    /\ last.opcodes = (IF last.base_text = <<>> THEN <<>>
                       ELSE <<Op("equal", 0, Len(last.base_text),
                                  0, Len(last.test_text))>>)
    /\ PageAnnots = {}

\* a page of several words compared with an identical page
C4_Witness ==
  /\ LastOk
  /\ last.base_text = last.test_text
  /\ Len(last.base_text) >= 2
  /\ Len(last.opcodes) = 1

-----------------------------------------------------------------------------
(* C5 *)

\* C5 as stated: in every variant a candidate word whose text is empty or only
\* whitespace is removed before the alignment, so it has no index in the
\* candidate sequence and carries no highlight.
C5_NoBlankToken ==
  LastOk =>
    \A k \in 1..Len(PageWords) :
      ~non_blank(PageWords[k]) =>
        /\ PageWords[k].rect.pos \notin Range(last.rects)
        /\ PageWords[k].rect.pos \notin PageAnnots

-----------------------------------------------------------------------------
(* C6 *)

\* C6 as stated: normalizing a normalized text changes nothing, for the
\* normalization of every variant.
C6_Idempotent == Len(nhist) = 3 => nhist[3] = nhist[2]

-----------------------------------------------------------------------------
(* C7 *)

\* C7 as stated: in every variant a page whose processing raised carries no
\* highlight, its failure is logged, and the run is not aborted.
C7_PageRejected ==
  /\ pc # "aborted"
  /\ last.failed =>
       /\ PageAnnots = {}
       /\ \E k \in 1..Len(log) :
            log[k].page = last.page /\ log[k].level \in {"error", "warning"}

-----------------------------------------------------------------------------
(* C8 *)

\* the sequence 0, 1, .., Len(s) - 1
Counts(s) == \A k \in 1..Len(s) : s[k] = k - 1

\* C8: a run processes the page indices 0, 1, .. in increasing order, each once,
\* never one at or beyond the page count of the shorter document, and all of
\* them below it by the time it saves; no page at or beyond that count is
\* annotated; a run is aborted only by a page that raised, never by the page
\* counts; the merge emits the pages 0, 1, .. in order, never more than the
\* smallest page count of the merged documents, exactly that many when it is
\* done, and stops early only on a page that does not load.
C8_PageBound ==
  /\ \A c \in 1..Len(cands) :
       /\ Counts(processed[c])
       /\ Len(processed[c]) <= Min2(Len(base), Len(cands[c]))
       /\ saved[c] => Len(processed[c]) = Min2(Len(base), Len(cands[c]))
       /\ \A q \in DOMAIN annots[c] :
            q > Min2(Len(base), Len(cands[c])) => annots[c][q] = {}
  /\ pc = "aborted" => last.failed
  /\ Counts(merged)
  /\ pc \in {"merge", "merge_failed", "done"} =>
       /\ Len(merged) <= MinLen(MergeDocs)
       /\ pc = "done" => Len(merged) = MinLen(MergeDocs)
       /\ pc = "merge_failed" =>
            \E k \in 1..Len(MergeDocs) :
              load_page(MergeDocs[k], page_num).fault = "load"

\* a finished run over documents of different page counts that processed and
\* merged at least one page
C8_Witness ==
  /\ pc = "done"
  /\ Len(base) > Len(cands[1])
  /\ processed[1] # <<>>
  /\ merged # <<>>

-----------------------------------------------------------------------------
(* C9 *)

\* C9 as stated: every variant aligns with autojunk off, so no symbol is dropped
\* for being frequent and the opcodes are those of the aligner without autojunk.
C9_AutojunkOff ==
  LastOk =>
    /\ ~last.autojunk
    /\ last.bpopular = {}
    /\ last.opcodes = get_opcodes(last.base_text, last.test_text, FALSE)

-----------------------------------------------------------------------------
(* C10 *)

\* every 'equal' opcode pairs equally long ranges of identical symbols
PairsIdentical ==
  \A k \in 1..Len(last.opcodes) :
    last.opcodes[k].tag = "equal" =>
      /\ last.opcodes[k].i2 - last.opcodes[k].i1
           = last.opcodes[k].j2 - last.opcodes[k].j1
      /\ \A t \in 0..(last.opcodes[k].i2 - last.opcodes[k].i1 - 1) :
           At(last.base_text, last.opcodes[k].i1 + t)
             = At(last.test_text, last.opcodes[k].j1 + t)

\* the number of candidate symbols covered by 'equal' opcodes
EqualCount == Cardinality({j \in CandIdx : InEqualOp(j)})

RECURSIVE Embeds(_, _, _, _, _)
\* the elements of a at the indices of S from i on occur in b from j on, in order
Embeds(a, S, i, b, j) ==
  IF i > Len(a) THEN TRUE
  ELSE IF i \notin S THEN Embeds(a, S, i + 1, b, j)
  ELSE LET J == {q \in j..Len(b) : b[q] = a[i]}
       IN  J # {} /\ Embeds(a, S, i + 1, b,
                            (CHOOSE q \in J : \A r \in J : q <= r) + 1)

\* the length of a longest common subsequence of a and b
LCSLen(a, b) ==
  LET sizes == {Cardinality(S) : S \in {T \in SUBSET (1..Len(a)) :
                                          Embeds(a, T, 1, b, 1)}}
  IN  CHOOSE n \in sizes : \A m \in sizes : m <= n

\* the length of the longest block of consecutive symbols, none of them in pop,
\* that a and b have in common
LongestBlock(a, b, pop) ==
  LET lens == {k \in 0..Min2(Len(a), Len(b)) :
                 \E i \in 0..(Len(a) - k), j \in 0..(Len(b) - k) :
                   \A t \in 0..(k - 1) :
                     At(a, i + t) = At(b, j + t) /\ At(a, i + t) \notin pop}
  IN  CHOOSE n \in lens : \A m \in lens : m <= n

\* C10 as stated: the 'equal' opcodes pair identical symbols and cover as many
\* symbols as a longest common subsequence of the two sequences has.
C10_Original ==
  LastOk =>
    /\ PairsIdentical
    /\ EqualCount = LCSLen(last.base_text, last.test_text)

\* C10, amended: the 'equal' opcodes pair identical symbols; they cover at most
\* as many symbols as a longest common subsequence has, possibly fewer, and at
\* least as many as the longest common block of consecutive symbols that the
\* autojunk heuristic did not drop.
C10_Alignment ==
  LastOk =>
    /\ PairsIdentical
    /\ EqualCount <= LCSLen(last.base_text, last.test_text)
    /\ EqualCount >= LongestBlock(last.base_text, last.test_text, last.bpopular)

\* a page whose alignment matches fewer symbols than a longest common
\* subsequence has
C10_Witness ==
  /\ LastOk
  /\ EqualCount >= 2
  /\ EqualCount < LCSLen(last.base_text, last.test_text)

=============================================================================
